---- MODULE Spec2Model ----
(***************************************************************************)
(* ZeroAgentGate (zag): per-request Ed25519 authentication for agents.     *)
(*                                                                         *)
(* The module models                                                       *)
(*   - the signature codec (buildSigningString, sign, exportPublicKey,     *)
(*     verify) of packages/auth/src/core.ts and packages/cli/src/lib,      *)
(*   - the file-per-agent credential store of core.ts (loadAgent,          *)
(*     saveAgent),                                                         *)
(*   - the Hono middleware zagAuth of packages/auth/src/adapters/hono.ts,  *)
(*   - FileSystemStorage of packages/auth/src/storage/filesystem.ts, used  *)
(*     by one caller and by concurrent callers,                            *)
(*   - the registration endpoint of the example service.                   *)
(*                                                                         *)
(* Strings are sequences of one-character strings, so that joining,        *)
(* upper-casing and parseInt are computed and not assumed.  Byte buffers   *)
(* are sequences of blocks [b |-> content, n |-> length in bytes].         *)
(* Ed25519 is modelled as an ideal deterministic signature scheme: the     *)
(* signature of a message under key pair k is a 64-byte block that names   *)
(* k and the message, and only that block verifies.                        *)
(***************************************************************************)
EXTENDS Integers, Sequences, FiniteSets, TLC

VARIABLES
    files,      \* keysDir: file path (segments below keysDir) -> file content
    clockMs,    \* Date.now() of the server, in milliseconds
    opts,       \* ZagAuthOptions.maxTimestampDrift given to zagAuth(opts)
    req,        \* the request last handled by the middleware (or NoRequest)
    out,        \* what the middleware did with req
    vin,        \* the arguments of the last call of verify (or NoCall)
    vout,       \* what that call of verify did
    writers,    \* the calls of saveAgent in flight: writer -> where it stands
    finished,   \* history: the writers that completed, in the order they did
    saved,      \* history: agent id -> the credential last saved under it
    rin,        \* the body of the last POST /auth/register (or NoCall)
    rout,       \* what the registration handler did with rin
    accepted,   \* history: the credentials of the request last accepted
    xin,        \* what the last run of exec was given and signed (or NoCall)
    cfg,        \* the config directory of the CLI: directory -> its files
    kept,       \* history: service path -> the agent data last saved for it
    setup       \* the run of setup in progress: where it stands

\* the state of the store in flight, of registration, and the history variables
later == <<writers, finished, saved, rin, rout, accepted>>

\* the state of the command-line client
cli == <<xin, cfg, kept, setup>>

vars == <<files, clockMs, opts, req, out, vin, vout, later, cli>>

(***************************************************************************)
(* JavaScript values                                                       *)
(*                                                                         *)
(* A string is a sequence of characters; the value undefined of a          *)
(* string-or-undefined is the one-element sequence Undefined, which no     *)
(* string equals.  A call that may throw returns Ok(v) or Throw.           *)
(***************************************************************************)
Undefined == <<"undefined">>

Ok(v) == [ok |-> TRUE, v |-> v]
Throw == [ok |-> FALSE]

\* !x for a string-or-undefined x: undefined and "" are falsy
Falsy(x) == x = Undefined \/ x = <<>>

(***************************************************************************)
(* Strings                                                                 *)
(***************************************************************************)
LowerLetters == <<"a","b","c","d","e","f","g","h","i","j","k","l","m",
                  "n","o","p","q","r","s","t","u","v","w","x","y","z">>
UpperLetters == <<"A","B","C","D","E","F","G","H","I","J","K","L","M",
                  "N","O","P","Q","R","S","T","U","V","W","X","Y","Z">>
Digits == <<"0","1","2","3","4","5","6","7","8","9">>
Newline == "\n"

IndexIn(c, s) ==
    IF \E i \in 1..Len(s) : s[i] = c
    THEN CHOOSE i \in 1..Len(s) : s[i] = c
    ELSE 0

UpperChar(c) ==
    IF IndexIn(c, LowerLetters) > 0 THEN UpperLetters[IndexIn(c, LowerLetters)] ELSE c

\* String.prototype.toUpperCase
toUpperCase(s) == [i \in 1..Len(s) |-> UpperChar(s[i])]

\* Array.prototype.join('\n')
RECURSIVE joinNewline(_)
joinNewline(parts) ==
    IF Len(parts) = 0 THEN <<>>
    ELSE IF Len(parts) = 1 THEN parts[1]
    ELSE parts[1] \o <<Newline>> \o joinNewline(Tail(parts))

(***************************************************************************)
(* Buffers and base64                                                      *)
(***************************************************************************)
RECURSIVE byteLength(_)
byteLength(buf) == IF buf = <<>> THEN 0 ELSE buf[1].n + byteLength(Tail(buf))

\* Buffer.from(string): the UTF-8 bytes of the string
Utf8(s) == IF s = <<>> THEN <<>> ELSE <<[b |-> <<"utf8", s>>, n |-> Len(s)]>>

\* buf.subarray(start): the bytes from offset start on
RECURSIVE subarray(_, _)
subarray(buf, start) ==
    IF start <= 0 \/ buf = <<>> THEN buf
    ELSE IF buf[1].n <= start THEN subarray(Tail(buf), start - buf[1].n)
    ELSE <<[b |-> <<"from", start, buf[1].b>>, n |-> buf[1].n - start]>>
         \o Tail(buf)

\* buf.subarray(0, end): the first end bytes
RECURSIVE firstBytes(_, _)
firstBytes(buf, end) ==
    IF end <= 0 \/ buf = <<>> THEN <<>>
    ELSE IF buf[1].n <= end THEN <<buf[1]>> \o firstBytes(Tail(buf), end - buf[1].n)
    ELSE <<[b |-> <<"upto", end, buf[1].b>>, n |-> end]>>

\* buf.toString('base64'): the base64 text of the bytes
toBase64(buf) == <<"base64:", buf>>

IsBase64(str) == Len(str) = 2 /\ str[1] = "base64:"

\* a string that is not base64 text at all
NotBase64 == <<"!", "!", "!">>

\* Buffer.from(str, 'base64'): throws a TypeError for a non-string; otherwise it
\* decodes leniently and never throws (a character outside the alphabet ends the
\* decoding, here with no byte decoded)
fromBase64(str) ==
    IF str = Undefined THEN Throw
    ELSE IF IsBase64(str) THEN Ok(str[2])
    ELSE Ok(<<>>)

(***************************************************************************)
(* Ed25519 keys and signatures (node:crypto)                               *)
(***************************************************************************)
NumKeys == 2
Keys == 1..NumKeys

SpkiPrefixLen == 12
RawKeyLen == 32
SignatureLen == 64

\* generateKeyPairSync('ed25519')
generateKeyPair(k) ==
    [publicKey |-> [type |-> "public", k |-> k],
     privateKey |-> [type |-> "private", k |-> k]]

\* Buffer.from('302a300506032b6570032100', 'hex'): the Ed25519 SPKI DER prefix
DerPrefix == <<[b |-> <<"hex", "302a300506032b6570032100">>, n |-> SpkiPrefixLen]>>

RawKey(k) == <<[b |-> <<"pk", k>>, n |-> RawKeyLen]>>

\* publicKey.export({ type: 'spki', format: 'der' })
exportSpkiDer(publicKey) == DerPrefix \o RawKey(publicKey.k)

\* createPublicKey({ key: der, format: 'der', type: 'spki' }): throws unless der
\* is the prefix followed by exactly 32 bytes; 32 bytes that are the public key
\* of no key pair give a key object (k = 0) under which nothing verifies
createPublicKey(der) ==
    IF byteLength(der) # SpkiPrefixLen + RawKeyLen \/ firstBytes(der, SpkiPrefixLen) # DerPrefix
    THEN Throw
    ELSE IF \E k \in Keys : subarray(der, SpkiPrefixLen) = RawKey(k)
         THEN Ok([type |-> "public",
                  k |-> CHOOSE k \in Keys : subarray(der, SpkiPrefixLen) = RawKey(k)])
         ELSE Ok([type |-> "public", k |-> 0])

\* crypto.sign(null, data, privateKey): deterministic, 64 bytes
cryptoSign(data, privateKey) ==
    <<[b |-> <<"sig", privateKey.k, data>>, n |-> SignatureLen]>>

\* crypto.verify(null, data, publicKey, signature): true exactly for the
\* signature that the matching private key makes over the same bytes
cryptoVerify(data, publicKey, signature) ==
    /\ publicKey.k \in Keys
    /\ signature = cryptoSign(data, [type |-> "private", k |-> publicKey.k])

\* cli/src/lib/crypto.ts sign
sign(signingString, privateKey) ==
    toBase64(cryptoSign(Utf8(signingString), privateKey))

\* a plausible slip: the SPKI prefix taken one byte short
exportPublicKeyShortPrefix(publicKey) ==
    toBase64(subarray(exportSpkiDer(publicKey), SpkiPrefixLen - 1))

\* cli/src/lib/crypto.ts exportPublicKey
exportPublicKey(publicKey) ==
    toBase64(subarray(exportSpkiDer(publicKey), SpkiPrefixLen))

(***************************************************************************)
(* Signature codec                                                         *)
(***************************************************************************)
\* a plausible slip: the body left out of the signed material
buildSigningStringNoBody(method, path, timestamp, body) ==
    joinNewline(<<toUpperCase(method), path, timestamp>>)

\* a plausible slip: the body segment appended whether or not there is a body
buildSigningStringAlwaysBody(method, path, timestamp, body) ==
    joinNewline(<<toUpperCase(method), path, timestamp,
                  IF Falsy(body) THEN <<>> ELSE body>>)

\* auth/src/core.ts buildSigningString
buildSigningString(method, path, timestamp, body) ==
    LET parts == <<toUpperCase(method), path, timestamp>>
    IN  IF ~Falsy(body) /\ Len(body) > 0
        THEN joinNewline(Append(parts, body))
        ELSE joinNewline(parts)

\* a plausible slip: the method signed as given
cli_buildSigningStringAsGiven(method, path, timestamp, body) ==
    LET parts == <<method, path, timestamp>>
    IN  IF ~Falsy(body) /\ Len(body) > 0
        THEN joinNewline(Append(parts, body))
        ELSE joinNewline(parts)

\* cli/src/lib/request.ts buildSigningString
cli_buildSigningString(method, path, timestamp, body) ==
    LET parts == <<toUpperCase(method), path, timestamp>>
    IN  IF ~Falsy(body) /\ Len(body) > 0
        THEN joinNewline(Append(parts, body))
        ELSE joinNewline(parts)

\* cli/src/lib/request.ts signRequest
signRequest(signingString, privateKey) == sign(signingString, privateKey)

\* the try block of verify: its completion, a boolean or a throw
verifyTry(o) ==
    IF o.method = Undefined THEN Throw  \* undefined.toUpperCase()
    ELSE
    LET signingString == buildSigningString(o.method, o.path, o.timestamp, o.body)
        signatureBuffer == fromBase64(o.signature)
        publicKeyBuffer == fromBase64(o.publicKey)
    IN  IF ~signatureBuffer.ok \/ ~publicKeyBuffer.ok THEN Throw
        ELSE LET keyObject == createPublicKey(DerPrefix \o publicKeyBuffer.v)
             IN  IF ~keyObject.ok THEN Throw
                 ELSE Ok(cryptoVerify(Utf8(signingString), keyObject.v, signatureBuffer.v))

\* a plausible slip: no catch around the cryptographic calls
verifyNoCatch(o) == verifyTry(o)

\* auth/src/core.ts verify: try { ... } catch { return false }
verify(o) == IF verifyTry(o).ok THEN verifyTry(o) ELSE Ok(FALSE)

(***************************************************************************)
(* Numbers and paths                                                       *)
(***************************************************************************)
Whitespace == {" ", "\t"}

RECURSIVE trimStart(_)
trimStart(s) ==
    IF s # <<>> /\ s[1] \in Whitespace THEN trimStart(Tail(s)) ELSE s

DigitValue(c) == IndexIn(c, Digits) - 1
IsDigit(c) == IndexIn(c, Digits) > 0

\* the longest prefix of digits
RECURSIVE digitPrefix(_)
digitPrefix(s) ==
    IF s # <<>> /\ IsDigit(s[1]) THEN <<s[1]>> \o digitPrefix(Tail(s)) ELSE <<>>

RECURSIVE digitsValue(_)
digitsValue(ds) ==
    IF ds = <<>> THEN 0
    ELSE 10 * digitsValue(SubSeq(ds, 1, Len(ds) - 1)) + DigitValue(ds[Len(ds)])

\* parseInt(str, 10): leading whitespace is skipped, one sign is read, then the
\* longest run of digits; whatever follows is ignored; no digit gives NaN
parseInt(str) ==
    LET t == trimStart(str)
        signed == t # <<>> /\ t[1] \in {"-", "+"}
        body == IF signed THEN Tail(t) ELSE t
        ds == digitPrefix(body)
    IN  IF ds = <<>> THEN [nan |-> TRUE, v |-> 0]
        ELSE [nan |-> FALSE,
              v |-> IF signed /\ t[1] = "-" THEN 0 - digitsValue(ds) ELSE digitsValue(ds)]

\* Number.prototype.toString of an integer
RECURSIVE natToString(_)
natToString(n) ==
    IF n < 10 THEN <<Digits[n + 1]>>
    ELSE natToString(n \div 10) \o <<Digits[(n % 10) + 1]>>

toString(n) == IF n < 0 THEN <<"-">> \o natToString(0 - n) ELSE natToString(n)

Abs(x) == IF x < 0 THEN 0 - x ELSE x

\* the segments of a path between its "/" separators
RECURSIVE splitPath(_, _)
splitPath(s, cur) ==
    IF s = <<>> THEN <<cur>>
    ELSE IF s[1] = "/" THEN <<cur>> \o splitPath(Tail(s), <<>>)
    ELSE splitPath(Tail(s), Append(cur, s[1]))

\* path.normalize on the segments of a relative path: "" and "." are dropped and
\* ".." removes the segment before it (or stays, above the starting directory)
RECURSIVE normalizeSegments(_, _)
normalizeSegments(segs, acc) ==
    IF segs = <<>> THEN acc
    ELSE LET g == segs[1]
         IN  IF g = <<>> \/ g = <<".">> THEN normalizeSegments(Tail(segs), acc)
             ELSE IF g = <<".", ".">>
                  THEN IF acc # <<>> /\ acc[Len(acc)] # <<".", ".">>
                       THEN normalizeSegments(Tail(segs), SubSeq(acc, 1, Len(acc) - 1))
                       ELSE normalizeSegments(Tail(segs), Append(acc, g))
                  ELSE normalizeSegments(Tail(segs), Append(acc, g))

DotJson == <<".", "j", "s", "o", "n">>

\* join(keysDir, `${agentId}.json`), as the segments below keysDir
agentPath(agentId) == normalizeSegments(splitPath(agentId \o DotJson, <<>>), <<>>)

\* a plausible slip: the whole of what follows the origin taken as the path,
\* query string included
pathnameWithQuery(rest) == rest

\* new URL(url).pathname: the part of the URL after the origin, up to "?" or "#"
RECURSIVE pathname(_)
pathname(rest) ==
    IF rest = <<>> \/ rest[1] \in {"?", "#"} THEN <<>>
    ELSE <<rest[1]>> \o pathname(Tail(rest))

(***************************************************************************)
(* Credential store: one JSON file per agent under keysDir                 *)
(***************************************************************************)
NoFile == <<"ENOENT">>

\* JSON.stringify(agent, null, 2)
JSONstringify(agent) == <<"json:", agent>>

\* JSON.parse(data): throws a SyntaxError for text that is not JSON
JSONparse(data) ==
    IF Len(data) = 2 /\ data[1] = "json:" THEN Ok(data[2]) ELSE Throw

\* a file that cannot be read: an I/O error other than a missing file
Unreadable == <<"EACCES">>

\* readFile(path, 'utf-8'): throws when there is no such file or it cannot be read
readFile(fs, path) ==
    IF path \notin DOMAIN fs \/ fs[path] \in {NoFile, Unreadable} THEN Throw
    ELSE Ok(fs[path])

NoAgent == [none |-> TRUE]

\* auth/src/core.ts loadAgent: try { read, parse } catch { return null }
loadAgent(agentId, fs) ==
    LET data == readFile(fs, agentPath(agentId))
    IN  IF ~data.ok THEN NoAgent
        ELSE IF ~JSONparse(data.v).ok THEN NoAgent
        ELSE JSONparse(data.v).v

\* auth/src/core.ts saveAgent: the file system after mkdir and writeFile
saveAgent(agent, fs) ==
    [fs EXCEPT ![agentPath(agent.agent_id)] = JSONstringify(agent)]

(***************************************************************************)
(* FileSystemStorage (auth/src/storage/filesystem.ts)                      *)
(***************************************************************************)
\* getAgent: try { read, parse } catch { return null }
getAgent(agentId, fs) ==
    LET data == readFile(fs, agentPath(agentId))
    IN  IF ~data.ok THEN NoAgent
        ELSE IF ~JSONparse(data.v).ok THEN NoAgent
        ELSE JSONparse(data.v).v

\* saveAgent, run from its first line to its last with nothing in between
FileSystemStorage_saveAgent(agent, fs) ==
    [fs EXCEPT ![agentPath(agent.agent_id)] = JSONstringify(agent)]

\* deleteAgent: rm(agentPath, { force: true }), no error when there is no file
deleteAgent(agentId, fs) == [fs EXCEPT ![agentPath(agentId)] = NoFile]

(***************************************************************************)
(* writeFile, step by step.  fs.promises.writeFile opens the file with     *)
(* flag 'w' (created, or truncated to no bytes), writes the text from      *)
(* position 0 of its own descriptor, and closes; two calls on one path     *)
(* may interleave between these steps.                                     *)
(***************************************************************************)
IsoLength == 24

\* the number of characters of a string value of a credential
valueLength(v) ==
    IF v = <<>> THEN 0
    ELSE IF IsBase64(v) THEN 4 * ((byteLength(v[2]) + 2) \div 3)
    ELSE Len(v)

statusLength(status) == IF status = "active" THEN 6 ELSE 7

\* the length of JSON.stringify(agent, null, 2): braces, two-space indentation,
\* quoted keys and values, commas and newlines
jsonLength(agent) ==
    2 + (18 + valueLength(agent.agent_id)) + (20 + valueLength(agent.public_key))
      + (IF "name" \in DOMAIN agent THEN 14 + valueLength(agent.name) ELSE 0)
      + (23 + IsoLength) + (15 + statusLength(agent.status)) + 1

\* the length of the text of a file that is open
textLength(data) ==
    IF data = <<>> THEN 0
    ELSE IF data[1] = "json:" THEN jsonLength(data[2])
    ELSE data[4]

\* open(path, 'w'): the file exists afterwards and has no bytes
openTruncate(fs, path) == [fs EXCEPT ![path] = <<>>]

\* write(fd, data) at position 0: the bytes of data replace the first bytes of
\* the file; what the file held beyond them stays
overwrite(old, data) ==
    IF textLength(data) >= textLength(old) THEN data
    ELSE <<"mixed:", data, old, textLength(old)>>

(***************************************************************************)
(* The middleware zagAuth (auth/src/adapters/hono.ts)                      *)
(***************************************************************************)
DefaultMaxTimestampDrift == 30
MsPerSecond == 1000

\* c.req.header(name): the value, or undefined when the header is absent
header(c, name) == c.headers[name]

\* const { maxTimestampDrift = 30 } = opts
maxTimestampDriftOf(o) ==
    IF "maxTimestampDrift" \in DOMAIN o THEN o.maxTimestampDrift
    ELSE DefaultMaxTimestampDrift

\* Math.floor(Date.now() / 1000)
currentTimeOf(dateNow) == dateNow \div MsPerSecond

\* a plausible slip: the signature header left out of the presence check
missingHeadersNoSignature(agentId, timestamp, signature) ==
    Falsy(agentId) \/ Falsy(timestamp)

\* !agentId || !timestamp || !signature
missingHeaders(agentId, timestamp, signature) ==
    Falsy(agentId) \/ Falsy(timestamp) \/ Falsy(signature)

\* a plausible slip: the boundary of the window excluded
outOfWindowStrict(requestTime, currentTime, maxTimestampDrift) ==
    requestTime.nan \/ Abs(currentTime - requestTime.v) >= maxTimestampDrift

\* a plausible slip: the drift taken without Math.abs, so that only timestamps
\* ahead of the server are out of the window
outOfWindowFutureOnly(requestTime, currentTime, maxTimestampDrift) ==
    requestTime.nan \/ requestTime.v - currentTime > maxTimestampDrift

\* isNaN(requestTime) || drift > maxTimestampDrift
outOfWindow(requestTime, currentTime, maxTimestampDrift) ==
    requestTime.nan \/ Abs(currentTime - requestTime.v) > maxTimestampDrift

\* return c.json({ error }, status): the handler ends and next is not called
Reject(steps, status, error) ==
    [steps |-> steps, status |-> status, error |-> error,
     next |-> FALSE, agentId |-> Undefined]

\* an exception leaving the handler: Hono answers 500 and next is not called
Raise(steps) ==
    [steps |-> steps, status |-> 500, error |-> "Internal Server Error",
     next |-> FALSE, agentId |-> Undefined]

\* c.set('agentId', agentId); await next()
Proceed(steps, agentId) ==
    [steps |-> Append(steps, "next"), status |-> 0, error |-> "",
     next |-> TRUE, agentId |-> agentId]

\* a plausible slip: the body never read, whatever the method
verifyRequestBodyUnread(c, agentId, timestamp, signature, agent, steps) ==
    LET isValid == verify([method |-> c.method, path |-> pathname(c.url.rest),
                           timestamp |-> timestamp, body |-> Undefined,
                           signature |-> signature, publicKey |-> agent.public_key])
        steps2 == Append(steps, "verify")
    IN  IF ~isValid.ok THEN Raise(steps2)
        ELSE IF ~isValid.v THEN Reject(steps2, 401, "Invalid signature")
        ELSE Proceed(steps2, agentId)

\* lines 52-81: request details, body capture, signature verification
verifyRequest(c, agentId, timestamp, signature, agent, steps) ==
    LET method == c.method
        path == pathname(c.url.rest)
        readsBody == method # <<"G", "E", "T">> /\ method # <<"H", "E", "A", "D">>
        body == IF readsBody THEN c.text ELSE Undefined
        steps1 == IF readsBody THEN Append(steps, "text") ELSE steps
        isValid == verify([method |-> method, path |-> path, timestamp |-> timestamp,
                           body |-> body, signature |-> signature,
                           publicKey |-> agent.public_key])
        steps2 == Append(steps1, "verify")
    IN  IF ~isValid.ok THEN Raise(steps2)
        ELSE IF ~isValid.v THEN Reject(steps2, 401, "Invalid signature")
        ELSE Proceed(steps2, agentId)

\* a plausible slip: the status of the credential never looked at
checkAgentNoStatus(c, agentId, timestamp, signature, fs, steps) ==
    LET agent == loadAgent(agentId, fs)
        steps1 == Append(steps, "loadAgent")
    IN  IF agent = NoAgent THEN Reject(steps1, 401, "Agent not found")
        ELSE verifyRequest(c, agentId, timestamp, signature, agent, steps1)

\* a plausible slip: no test for a missing credential, so that agent.status
\* throws on null
checkAgentNoNullTest(c, agentId, timestamp, signature, fs, steps) ==
    LET agent == loadAgent(agentId, fs)
        steps1 == Append(steps, "loadAgent")
    IN  IF agent = NoAgent THEN Raise(Append(steps1, "status"))
        ELSE IF agent.status # "active"
             THEN Reject(Append(steps1, "status"), 403, "Agent is not active")
             ELSE verifyRequest(c, agentId, timestamp, signature, agent,
                                Append(steps1, "status"))

\* a plausible slip: the signature verified before the status is checked
checkAgentVerifyFirst(c, agentId, timestamp, signature, fs, steps) ==
    LET agent == loadAgent(agentId, fs)
        steps1 == Append(steps, "loadAgent")
        verified == IF agent = NoAgent THEN Reject(steps1, 401, "Agent not found")
                    ELSE verifyRequest(c, agentId, timestamp, signature, agent, steps1)
    IN  IF agent = NoAgent \/ ~verified.next THEN verified
        ELSE IF agent.status # "active"
             THEN Reject(Append(verified.steps, "status"), 403, "Agent is not active")
             ELSE verified

\* a plausible slip: a request whose credential cannot be loaded is let through
checkAgentFailOpen(c, agentId, timestamp, signature, fs, steps) ==
    LET agent == loadAgent(agentId, fs)
        steps1 == Append(steps, "loadAgent")
    IN  IF agent = NoAgent THEN Proceed(steps1, agentId)
        ELSE IF agent.status # "active"
             THEN Reject(Append(steps1, "status"), 403, "Agent is not active")
             ELSE verifyRequest(c, agentId, timestamp, signature, agent,
                                Append(steps1, "status"))

\* lines 42-50: credential lookup and status check
checkAgent(c, agentId, timestamp, signature, fs, steps) ==
    LET agent == loadAgent(agentId, fs)
        steps1 == Append(steps, "loadAgent")
    IN  IF agent = NoAgent THEN Reject(steps1, 401, "Agent not found")
        ELSE IF agent.status # "active"
             THEN Reject(Append(steps1, "status"), 403, "Agent is not active")
             ELSE verifyRequest(c, agentId, timestamp, signature, agent,
                                Append(steps1, "status"))

\* a plausible addition that would make the handler stateful: a cache of the
\* credentials already accepted, and a presented triple accepted only once
zagAuthReplayCache(o, c, fs, dateNow) ==
    LET agentId == header(c, "X-Agent-Id")
        timestamp == header(c, "X-Timestamp")
        signature == header(c, "X-Signature")
    IN  IF missingHeaders(agentId, timestamp, signature)
        THEN Reject(<<"headers">>, 401, "Missing authentication headers")
        ELSE IF outOfWindow(parseInt(timestamp), currentTimeOf(dateNow),
                            maxTimestampDriftOf(o))
             THEN Reject(<<"headers", "timestamp">>, 401,
                         "Request timestamp out of allowed window")
             ELSE IF \E i \in 1..Len(accepted) :
                        accepted[i] = <<agentId, timestamp, signature>>
                  THEN Reject(<<"headers", "timestamp">>, 401, "Invalid signature")
                  ELSE checkAgent(c, agentId, timestamp, signature, fs,
                                  <<"headers", "timestamp">>)

\* the handler returned by zagAuth(opts), run on context c with the file system
\* fs and the clock reading dateNow
zagAuth(o, c, fs, dateNow) ==
    LET agentId == header(c, "X-Agent-Id")
        timestamp == header(c, "X-Timestamp")
        signature == header(c, "X-Signature")
    IN  IF missingHeaders(agentId, timestamp, signature)
        THEN Reject(<<"headers">>, 401, "Missing authentication headers")
        ELSE IF outOfWindow(parseInt(timestamp), currentTimeOf(dateNow),
                            maxTimestampDriftOf(o))
             THEN Reject(<<"headers", "timestamp">>, 401,
                         "Request timestamp out of allowed window")
             ELSE checkAgent(c, agentId, timestamp, signature, fs,
                             <<"headers", "timestamp">>)

(***************************************************************************)
(* The registration endpoint of the example service (POST /auth/register)  *)
(***************************************************************************)
\* new Date(ms).toISOString()
toISOString(ms) == <<"iso:", ms>>

\* the AgentRegistration the handler builds; JSON.stringify leaves out a name
\* that is undefined
registration(agent_id, public_key, name, dateNow) ==
    IF name = Undefined
    THEN [agent_id |-> agent_id, public_key |-> public_key,
          registered_at |-> toISOString(dateNow), status |-> "active"]
    ELSE [agent_id |-> agent_id, public_key |-> public_key, name |-> name,
          registered_at |-> toISOString(dateNow), status |-> "active"]

\* a slip: the public key not looked at before the credential is saved
registerUnchecked(body, fs, dateNow) ==
    IF ~body.ok THEN [status |-> 500, files |-> fs]
    ELSE IF Falsy(body.v.agent_id)
         THEN [status |-> 400, error |-> "Missing agent_id or public_key", files |-> fs]
         ELSE [status |-> 200, agent_id |-> body.v.agent_id,
               files |-> saveAgent(registration(body.v.agent_id, body.v.public_key,
                                                body.v.name, dateNow), fs)]

\* the handler, on the completion of c.req.json() (the parsed body, or a throw
\* for a body that is not JSON), the file system and the clock reading; no
\* header is read and zagAuth is not in front of it
register(body, fs, dateNow) ==
    IF ~body.ok THEN [status |-> 500, files |-> fs]
    ELSE IF Falsy(body.v.agent_id) \/ Falsy(body.v.public_key)
         THEN [status |-> 400, error |-> "Missing agent_id or public_key", files |-> fs]
         ELSE [status |-> 200, agent_id |-> body.v.agent_id,
               files |-> saveAgent(registration(body.v.agent_id, body.v.public_key,
                                                body.v.name, dateNow), fs)]

(***************************************************************************)
(* The config directory of the CLI (cli/src/lib/config.ts).  A directory   *)
(* is named by its segments below the config directory; cfg gives every    *)
(* directory its files, NoFile for a file that is not there.               *)
(***************************************************************************)
Services == <<"s", "e", "r", "v", "i", "c", "e", "s">>

\* the characters of the model that encodeURIComponent escapes, and their codes
EscapedChars == <<":", "/", "?", " ", "%", "#">>
EscapeCodes == <<<<"3", "A">>, <<"2", "F">>, <<"3", "F">>, <<"2", "0">>,
                 <<"2", "5">>, <<"2", "3">>>>

RECURSIVE encodeURIComponent(_)
encodeURIComponent(s) ==
    IF s = <<>> THEN <<>>
    ELSE (IF IndexIn(s[1], EscapedChars) > 0
          THEN <<"%">> \o EscapeCodes[IndexIn(s[1], EscapedChars)]
          ELSE <<s[1]>>) \o encodeURIComponent(Tail(s))

RECURSIVE decodeURIComponent(_)
decodeURIComponent(s) ==
    IF s = <<>> THEN <<>>
    ELSE IF s[1] = "%" /\ Len(s) >= 3 /\ IndexIn(<<s[2], s[3]>>, EscapeCodes) > 0
         THEN <<EscapedChars[IndexIn(<<s[2], s[3]>>, EscapeCodes)]>>
              \o decodeURIComponent(SubSeq(s, 4, Len(s)))
         ELSE <<s[1]>> \o decodeURIComponent(Tail(s))

\* getServiceDir: join(getServicesDir(), encodeURIComponent(path)); join
\* normalises the result
getServiceDir(path) == normalizeSegments(<<Services, encodeURIComponent(path)>>, <<>>)

NoDir == [exists |-> FALSE, agent |-> NoFile, manifest |-> NoFile,
          public |-> NoFile, private |-> NoFile, mode |-> NoFile]
EmptyDir == [NoDir EXCEPT !.exists = TRUE]

IsPrefix(d, e) == Len(d) <= Len(e) /\ SubSeq(e, 1, Len(d)) = d

\* mkdir(dir, { recursive: true })
mkdir(fs, dir) ==
    [d \in DOMAIN fs |-> IF IsPrefix(d, dir) /\ ~fs[d].exists THEN EmptyDir ELSE fs[d]]

\* rm(dir, { recursive: true, force: true })
rm(fs, dir) == [d \in DOMAIN fs |-> IF IsPrefix(dir, d) THEN NoDir ELSE fs[d]]

\* writeFile(join(dir, name), content) in a directory that exists
writeFile(fs, dir, name, content) == [fs EXCEPT ![dir][name] = content]

\* existsSync(join(dir, name))
existsSync(fs, dir, name) == fs[dir].exists /\ fs[dir][name] # NoFile

ensureServiceDir(path, fs) == mkdir(fs, getServiceDir(path))

\* saveAgent(path, agent): ensureServiceDir, then agent.json is written
cli_saveAgent(path, agent, fs) ==
    writeFile(ensureServiceDir(path, fs), getServiceDir(path), "agent",
              JSONstringify(agent))

\* loadAgent(path): null without agent.json, else the parsed text (or a throw)
cli_loadAgent(path, fs) ==
    IF ~existsSync(fs, getServiceDir(path), "agent") THEN Ok(NoAgent)
    ELSE JSONparse(fs[getServiceDir(path)].agent)

serviceExists(path, fs) == existsSync(fs, getServiceDir(path), "agent")

\* listServices: the decoded names of the directories in services that hold an
\* agent.json (as a set: readdir gives them in no order the code fixes)
listServices(fs) ==
    IF ~fs[<<Services>>].exists THEN {}
    ELSE { p \in { decodeURIComponent(d[2]) :
                     d \in {e \in DOMAIN fs : Len(e) = 2 /\ e[1] = Services /\ fs[e].exists} } :
             serviceExists(p, fs) }

removeService(path, fs) == rm(fs, getServiceDir(path))

(***************************************************************************)
(* Inputs                                                                  *)
(***************************************************************************)
GET == <<"G", "E", "T">>
HEAD == <<"H", "E", "A", "D">>
POST == <<"P", "O", "S", "T">>
get == <<"g", "e", "t">>
patch == <<"p", "a", "t", "c", "h">>

A1 == <<"a", "1">>
A2 == <<"a", "2">>
DotSlashA1 == <<".", "/", "a", "1">>

PathA == <<"/", "a">>
PathB == <<"/", "b">>
PathAQuery == <<"/", "a", "?", "q">>

PublicKeyOf(k) == exportPublicKey(generateKeyPair(k).publicKey)
PrivateKeyOf(k) == generateKeyPair(k).privateKey

\* malformed key material: a key cut to 31 bytes, one of 33 bytes, 32 bytes that
\* are no key, and text that is not base64
TruncatedKey == toBase64(firstBytes(RawKey(1), RawKeyLen - 1))
LongKey == toBase64(RawKey(1) \o <<[b |-> <<"zero">>, n |-> 1]>>)
NoSuchKey == toBase64(<<[b |-> <<"zero">>, n |-> RawKeyLen]>>)
TruncatedSignature(sig) == toBase64(firstBytes(sig[2], SignatureLen - 1))

RegisteredAt == "2026-01-01T00:00:00.000Z"

\* the agent ids a request may claim, and the files they resolve to
AgentIds == {A1, A2, DotSlashA1}
FilePaths == {agentPath(id) : id \in AgentIds}

\* the registrations saveAgent is called with
StoredKeys == {PublicKeyOf(1), TruncatedKey}
Agents ==
    [agent_id : {A1}, public_key : StoredKeys,
     registered_at : {RegisteredAt}, status : {"active", "revoked"}]
    \cup [agent_id : {A2}, public_key : {PublicKeyOf(1)},
          registered_at : {RegisteredAt}, status : {"active", "revoked"}]

MaxDrift == 0
MaxTicks == 2
TickMs == 500

OptionSets ==
    {[keysDir |-> "data/agents"]}
    \cup {[keysDir |-> "data/agents", maxTimestampDrift |-> d] : d \in 0..MaxDrift}

Headers(agentId, timestamp, signature) ==
    ("X-Agent-Id" :> agentId) @@ ("X-Timestamp" :> timestamp)
    @@ ("X-Signature" :> signature)

Context(agentId, timestamp, signature, method, rest, text) ==
    [headers |-> Headers(agentId, timestamp, signature), method |-> method,
     url |-> [origin |-> "http://localhost:8000", rest |-> rest], text |-> text]

\* what a client holding key pair k sends as X-Signature for a request: it signs
\* the method, the path without query, the timestamp and a body (exec.ts 96-100)
ClientSignature(k, method, rest, timestamp, body) ==
    signRequest(cli_buildSigningString(method, pathname(rest), timestamp, body),
                PrivateKeyOf(k))

\* the service paths given to the CLI, and the agent data it stores for them
ServiceUrl1 == <<"h", "t", "t", "p", ":", "/", "/", "a">>
ServiceUrl2 == <<"h", "t", "t", "p", ":", "/", "/", "b">>
CliPaths == {ServiceUrl1, ServiceUrl2, <<>>, <<".">>, <<".", ".">>}
CliData ==
    [agent_id : {A1, A2}, service_path : {ServiceUrl1}, registered_at : {RegisteredAt},
     status : {"active"}]
ConfigDirs == {<<>>, <<Services>>} \cup {getServiceDir(p) : p \in CliPaths}
IdleSetup == [pc |-> "idle"]

(***************************************************************************)
(* exec of the CLI (cli/src/commands/exec.ts, cli/src/lib/request.ts)      *)
(***************************************************************************)
Quote == "\""

\* the pieces of s between the occurrences of sep
RECURSIVE splitOn(_, _, _)
splitOn(s, sep, cur) ==
    IF s = <<>> THEN <<cur>>
    ELSE IF s[1] = sep THEN <<cur>> \o splitOn(Tail(s), sep, <<>>)
    ELSE splitOn(Tail(s), sep, Append(cur, s[1]))

NoParams == [key \in {} |-> <<>>]

\* JSON.parse of a --data text.  The texts given are {} and objects with one
\* string member, {"key":"value"}; anything else here is not JSON
JSONparseData(data) ==
    LET parts == splitOn(data, Quote, <<>>)
    IN  IF data = <<"{", "}">> THEN Ok(NoParams)
        ELSE IF /\ Len(parts) = 5
                /\ parts[1] = <<"{">> /\ parts[3] = <<":">> /\ parts[5] = <<"}">>
             THEN Ok([key \in {parts[2]} |-> parts[4]])
             ELSE Throw

\* what \w matches
IsWordChar(c) ==
    IndexIn(c, LowerLetters) > 0 \/ IndexIn(c, UpperLetters) > 0 \/ IsDigit(c) \/ c = "_"

RECURSIVE wordPrefix(_)
wordPrefix(s) ==
    IF s = <<>> \/ ~IsWordChar(s[1]) THEN <<>> ELSE <<s[1]>> \o wordPrefix(Tail(s))

\* substitutePath: path.replace(/:(\w+)/g, (_, key) => params[key] ?? `:${key}`)
RECURSIVE substitutePath(_, _)
substitutePath(path, params) ==
    IF path = <<>> THEN <<>>
    ELSE IF path[1] = ":" /\ wordPrefix(Tail(path)) # <<>>
         THEN LET key == wordPrefix(Tail(path))
              IN  (IF key \in DOMAIN params THEN params[key] ELSE <<":">> \o key)
                  \o substitutePath(SubSeq(path, Len(key) + 2, Len(path)), params)
         ELSE <<path[1]>> \o substitutePath(Tail(path), params)

\* what the URL parser of fetch makes of the part after the origin: a fragment
\* is not sent, a space is sent as %20, an empty path as "/"
RECURSIVE requestTarget(_)
requestTarget(rest) ==
    IF rest = <<>> \/ rest[1] = "#" THEN <<>>
    ELSE (IF rest[1] = " " THEN <<"%", "2", "0">> ELSE <<rest[1]>>)
         \o requestTarget(Tail(rest))

\* sendRequest: the request as the server receives it
sendRequest(o) ==
    LET base == o.serviceUrl.path
        baseUrl == IF base # <<>> /\ base[Len(base)] = "/"
                   THEN SubSeq(base, 1, Len(base) - 1) ELSE base
        target == requestTarget(baseUrl \o o.actionPath)
    IN  [headers |-> Headers(o.agentId, o.timestamp, o.signature),
         method |-> o.method,
         url |-> [origin |-> o.serviceUrl.origin,
                  rest |-> IF target = <<>> THEN <<"/">> ELSE target],
         text |-> IF Falsy(o.body) THEN <<>> ELSE o.body]

\* Exec.run from line 75 on, with the action, the agent and the private key
\* loaded: exit 1 for data that is not JSON, else what was signed and sent
exec(serviceUrl, action, data, agent, privateKey, dateNow) ==
    LET parsed == IF Falsy(data) THEN Ok(NoParams) ELSE JSONparseData(data)
    IN  IF ~parsed.ok THEN [exit |-> 1]
        ELSE
        LET body == IF ~Falsy(data) /\ action.method # GET THEN data ELSE Undefined
            actionPath == substitutePath(action.path, parsed.v)
            timestamp == toString(dateNow \div MsPerSecond)
            signingString == cli_buildSigningString(action.method, actionPath,
                                                    timestamp, body)
            signature == signRequest(signingString, privateKey)
        IN  [exit |-> 0,
             signed |-> [method |-> action.method, path |-> actionPath,
                         timestamp |-> timestamp, body |-> body],
             request |-> sendRequest([serviceUrl |-> serviceUrl,
                                      actionPath |-> actionPath,
                                      method |-> action.method, body |-> body,
                                      agentId |-> agent.agent_id,
                                      signature |-> signature,
                                      timestamp |-> timestamp])]

DELETE == <<"D", "E", "L", "E", "T", "E">>
PathParam == <<"/", "a", "/", ":", "i", "d">>
ManifestActions == [method : {GET, POST, DELETE}, path : {PathA, PathParam, PathAQuery}]

DataOf(value) == <<"{", Quote, "i", "d", Quote, ":", Quote>> \o value \o <<Quote, "}">>
ExecData ==
    {Undefined, <<>>, <<"{", "}">>, <<"{">>,
     DataOf(<<"7">>), DataOf(<<"7", "?", "x">>), DataOf(<<"a", " ", "b">>)}

ExecServiceUrls == {[origin |-> "http://localhost:8000", path |-> base] : base \in {<<>>, <<"/">>}}

\* the client's clock minus the server's, in milliseconds
ExecSkews ==
    {0, MsPerSecond, 0 - MsPerSecond, (DefaultMaxTimestampDrift + 1) * MsPerSecond}

\* the registration the client holds, and the credentials the service may hold
ExecAgent ==
    [agent_id |-> A1, service_path |-> ServiceUrl1, registered_at |-> RegisteredAt,
     status |-> "active"]
ExecCredentials ==
    [agent_id : {A1}, public_key : {PublicKeyOf(k) : k \in Keys},
     registered_at : {RegisteredAt}, status : {"active", "revoked"}]

HeaderTimestamps == {Undefined, <<"0">>, <<"4", "0">>, <<"0", "x">>, <<"x">>}
Methods == {GET, HEAD, POST, patch}
Urls == {PathA, PathAQuery}
Texts == {<<>>, <<"x">>}

\* the bodies a client may have signed: those it may send, and another one
SignedTexts == Texts \cup {<<"y">>}

\* the requests of Spec: every combination of headers, method, URL and body,
\* with a signature that is absent, empty, not base64, or made by some key over the
\* request's own method, path and timestamp and some body
Requests ==
    UNION {
        { Context(id, ts, sig, m, u, b) :
            sig \in {Undefined, <<>>, NotBase64}
                    \cup { ClientSignature(k, m, u, IF ts = Undefined THEN <<"0">> ELSE ts, sb) :
                             k \in Keys, sb \in SignedTexts } } :
        id \in AgentIds \cup {Undefined}, ts \in HeaderTimestamps,
        m \in Methods, u \in Urls, b \in Texts }

NoRequest == [none |-> TRUE]
NoOutcome == [none |-> TRUE]
NoCall == [none |-> TRUE]

\* the concurrent callers of saveAgent
NumWriters == 2
Writers == 1..NumWriters
IdleWriter == [pc |-> "idle"]

(***************************************************************************)
(* Actions                                                                 *)
(***************************************************************************)
Init ==
    /\ files = [p \in FilePaths |-> NoFile]
    /\ clockMs = 0
    /\ opts \in OptionSets
    /\ req = NoRequest
    /\ out = NoOutcome
    /\ vin = NoCall
    /\ vout = NoCall
    /\ writers = [w \in Writers |-> IdleWriter]
    /\ finished = <<>>
    /\ saved = [id \in AgentIds |-> NoAgent]
    /\ rin = NoCall
    /\ rout = NoCall
    /\ accepted = <<>>
    /\ xin = NoCall
    /\ cfg = [d \in ConfigDirs |-> NoDir]
    /\ kept = [p \in CliPaths |-> NoAgent]
    /\ setup = IdleSetup

\* saveAgent(agent, keysDir), between two requests
SaveAgent(agent) ==
    /\ req = NoRequest
    /\ files' = saveAgent(agent, files)
    /\ UNCHANGED <<clockMs, opts, req, out, vin, vout, later, cli>>

\* the server's clock advances, between two requests
Tick(maxTicks) ==
    /\ req = NoRequest
    /\ clockMs + TickMs <= maxTicks * TickMs
    /\ clockMs' = clockMs + TickMs
    /\ UNCHANGED <<files, opts, req, out, vin, vout, later, cli>>

\* one request through the middleware.  The handler is taken as one step, from
\* its first line to its response, and requests are answered one at a time, so
\* that (req, out) is the request being answered and files and clockMs are
\* what the handler read
Request(c) ==
    /\ req' = c
    /\ out' = zagAuth(opts, c, files, clockMs)
    /\ UNCHANGED <<files, clockMs, opts, vin, vout, later, cli>>

\* the response has been sent and the request is over
Respond ==
    /\ req # NoRequest
    /\ req' = NoRequest
    /\ out' = NoOutcome
    /\ UNCHANGED <<files, clockMs, opts, vin, vout, later, cli>>

Next ==
    \/ \E agent \in Agents : SaveAgent(agent)
    \/ Tick(MaxTicks)
    \/ req = NoRequest /\ \E c \in Requests : Request(c)
    \/ Respond

Spec == Init /\ [][Next]_vars

(***************************************************************************)
(* SpecWindow: the replay window.  One agent, registered and active, sends *)
(* correctly signed requests whose timestamps range over the integers      *)
(* around the clock readings; the drift is the default or a configured one.*)
(***************************************************************************)
MaxWindowTicks == 72
MaxTimestamp == 68
MinTimestamp == 0 - 2

WindowAgent ==
    [agent_id |-> A1, public_key |-> PublicKeyOf(1),
     registered_at |-> RegisteredAt, status |-> "active"]

WindowRequests ==
    { Context(A1, toString(t), ClientSignature(1, GET, PathA, toString(t), Undefined),
              GET, PathA, <<>>) : t \in MinTimestamp..MaxTimestamp }

NextWindow ==
    \/ SaveAgent(WindowAgent)
    \/ Tick(MaxWindowTicks)
    \/ req = NoRequest /\ \E c \in WindowRequests : Request(c)
    \/ Respond

SpecWindow == Init /\ [][NextWindow]_vars

(***************************************************************************)
(* SpecCodec: verify as a pure function.  A signer signs (method, path,    *)
(* timestamp, body) with key pair k; verify is then called with arguments  *)
(* that may differ from what was signed, or with malformed material.       *)
(***************************************************************************)
CodecMethods == {GET, get, POST}
CodecPaths == {PathA, PathB}
CodecTimestamps == {<<"1">>, <<"2">>}
CodecBodies == {Undefined, <<>>, <<"x">>, <<"y">>}

\* a timestamp with a newline in it, which no header can carry but a caller of
\* the codec can pass
NewlineTimestamp == <<"1", Newline, "x">>
SignedTimestamps == CodecTimestamps \cup {NewlineTimestamp}

Signed == [method : CodecMethods, path : CodecPaths, timestamp : SignedTimestamps,
           body : CodecBodies, k : Keys]

\* sign(buildSigningString(method, path, timestamp, body), privateKey), as the
\* client does it
SignatureOf(g) ==
    sign(cli_buildSigningString(g.method, g.path, g.timestamp, g.body), PrivateKeyOf(g.k))

MalformedSignatures(g) == {Undefined, <<>>, NotBase64, TruncatedSignature(SignatureOf(g))}
MalformedKeys == {Undefined, <<>>, NotBase64, TruncatedKey, LongKey, NoSuchKey}

VerifyCall(g, o) ==
    /\ vin' = [signed |-> g, call |-> o]
    /\ vout' = verify(o)
    /\ UNCHANGED <<files, clockMs, opts, req, out, later, cli>>

\* verify called with a signature made by the signer and an exported public
\* key, on any method, path, timestamp and body
VerifyWellFormed ==
    /\ vin = NoCall
    /\ \E g \in Signed, m \in CodecMethods, p \in CodecPaths, t \in CodecTimestamps,
       b \in CodecBodies, k \in Keys :
        VerifyCall(g, [method |-> m, path |-> p, timestamp |-> t, body |-> b,
                       signature |-> SignatureOf(g), publicKey |-> PublicKeyOf(k)])

\* verify called on what was signed, with a malformed signature, key or method
VerifyMalformed ==
    /\ vin = NoCall
    /\ \E g \in Signed :
      \E m \in {g.method, Undefined},
         sig \in {SignatureOf(g)} \cup MalformedSignatures(g),
         key \in {PublicKeyOf(g.k)} \cup MalformedKeys :
        VerifyCall(g, [method |-> m, path |-> g.path, timestamp |-> g.timestamp,
                       body |-> g.body, signature |-> sig, publicKey |-> key])

VerifyReturn ==
    /\ vin # NoCall
    /\ vin' = NoCall
    /\ vout' = NoCall
    /\ UNCHANGED <<files, clockMs, opts, req, out, later, cli>>

NextCodec == VerifyWellFormed \/ VerifyMalformed \/ VerifyReturn

SpecCodec == Init /\ [][NextCodec]_vars

(***************************************************************************)
(* SpecFault: the store fails under the middleware.  The credential file   *)
(* of an agent may be missing, unreadable or hold text that is not JSON    *)
(* when a request for it arrives.                                          *)
(***************************************************************************)
\* text that JSON.parse rejects
Unparsable == <<"{", "x">>

FaultContents == {NoFile, Unreadable, Unparsable, <<>>}

\* the file of an agent is removed, made unreadable or overwritten with text
\* that is not a credential, between two requests
Fault(path, content) ==
    /\ req = NoRequest
    /\ files' = [files EXCEPT ![path] = content]
    /\ UNCHANGED <<clockMs, opts, req, out, vin, vout, later, cli>>

FaultRequests ==
    { Context(id, <<"0">>, sig, m, PathA, <<>>) :
        id \in AgentIds, m \in {GET, POST},
        sig \in {NotBase64} \cup { ClientSignature(k, mm, PathA, <<"0">>, Undefined) :
                                     k \in Keys, mm \in {GET, POST} } }

NextFault ==
    \/ \E agent \in Agents : SaveAgent(agent)
    \/ \E path \in FilePaths, content \in FaultContents : Fault(path, content)
    \/ req = NoRequest /\ \E c \in FaultRequests : Request(c)
    \/ Respond

SpecFault == Init /\ [][NextFault]_vars

(***************************************************************************)
(* SpecPending: the handler suspended at its await.  A request whose       *)
(* headers and timestamp are in order waits at `await loadAgent(...)`      *)
(* until the store answers; the handler goes on when the promise settles.  *)
(* The handler's own steps are fair; whether the store answers is up to    *)
(* the store.                                                              *)
(***************************************************************************)
\* the handler is at line 42, its promise not settled
Awaiting == [awaiting |-> "loadAgent"]

PendingRequests ==
    FaultRequests \cup
    { Context(A1, ts, ClientSignature(1, GET, PathA, <<"0">>, Undefined), GET, PathA, <<>>) :
        ts \in {Undefined, <<"9", "9">>} }

\* lines 15-40: a request arrives and is rejected at once, or reaches the lookup
Arrive(c) ==
    /\ req = NoRequest
    /\ req' = c
    /\ out' = LET o == zagAuth(opts, c, files, clockMs)
              IN  IF \E i \in 1..Len(o.steps) : o.steps[i] = "loadAgent"
                  THEN Awaiting
                  ELSE o
    /\ UNCHANGED <<files, clockMs, opts, vin, vout, later, cli>>

\* the promise of loadAgent settles, and the handler runs on to its verdict
\* (lines 42-81)
StoreAnswers ==
    /\ req # NoRequest
    /\ out = Awaiting
    /\ out' = zagAuth(opts, req, files, clockMs)
    /\ UNCHANGED <<files, clockMs, opts, req, vin, vout, later, cli>>

\* the response of a request that has its verdict is sent
RespondVerdict ==
    /\ out # Awaiting
    /\ Respond

NextPending ==
    \/ \E agent \in Agents : SaveAgent(agent)
    \/ \E c \in PendingRequests : Arrive(c)
    \/ StoreAnswers
    \/ RespondVerdict

SpecPending == Init /\ [][NextPending]_vars /\ WF_vars(RespondVerdict)

(***************************************************************************)
(* SpecStore: FileSystemStorage used by one caller at a time.  Each save   *)
(* and delete runs to completion before the next one starts; saved records *)
(* what was last saved under each agent id and not deleted since.          *)
(***************************************************************************)
StoreAgents ==
    [agent_id : AgentIds, public_key : {PublicKeyOf(k) : k \in Keys},
     registered_at : {RegisteredAt}, status : {"active", "revoked"}]

StoreSave(agent) ==
    /\ files' = FileSystemStorage_saveAgent(agent, files)
    /\ saved' = [saved EXCEPT ![agent.agent_id] = agent]
    /\ UNCHANGED <<clockMs, opts, req, out, vin, vout, writers, finished, rin, rout,
                   accepted, cli>>

StoreDelete(agentId) ==
    /\ files' = deleteAgent(agentId, files)
    /\ saved' = [saved EXCEPT ![agentId] = NoAgent]
    /\ UNCHANGED <<clockMs, opts, req, out, vin, vout, writers, finished, rin, rout,
                   accepted, cli>>

NextStore ==
    \/ \E agent \in StoreAgents : StoreSave(agent)
    \/ \E agentId \in AgentIds : StoreDelete(agentId)

SpecStore == Init /\ [][NextStore]_vars

(***************************************************************************)
(* SpecWriters: FileSystemStorage under concurrent callers.  Each writer   *)
(* calls saveAgent once; the awaits of saveAgent (mkdir, then open, write  *)
(* and close inside writeFile) are the points where another caller runs.   *)
(* deleteAgent is one rm call.                                             *)
(***************************************************************************)
WriterAgents ==
    [agent_id : {A1}, public_key : {PublicKeyOf(1)},
     registered_at : {RegisteredAt}, status : {"active", "revoked"}]
    \cup [agent_id : {A2}, public_key : {PublicKeyOf(1)},
          registered_at : {RegisteredAt}, status : {"active"}]

WriterPath(w) == agentPath(writers[w].agent.agent_id)

\* saveAgent is called; mkdir(directory, { recursive: true }) returns
SaveBegin(w, agent) ==
    /\ writers[w].pc = "idle"
    /\ writers' = [writers EXCEPT ![w] = [pc |-> "mkdir", agent |-> agent,
                                           orphan |-> FALSE]]
    /\ UNCHANGED <<files, clockMs, opts, req, out, vin, vout, finished, saved, rin,
                   rout, accepted, cli>>

\* writeFile opens the file: it is created, or truncated
SaveOpen(w) ==
    /\ writers[w].pc = "mkdir"
    /\ files' = openTruncate(files, WriterPath(w))
    /\ writers' = [writers EXCEPT ![w].pc = "open"]
    /\ UNCHANGED <<clockMs, opts, req, out, vin, vout, finished, saved, rin, rout,
                   accepted, cli>>

\* writeFile writes the text; a descriptor whose file was removed meanwhile
\* writes to a file that no path names any more
SaveWrite(w) ==
    /\ writers[w].pc = "open"
    /\ files' = IF writers[w].orphan THEN files
                 ELSE [files EXCEPT ![WriterPath(w)] =
                          overwrite(files[WriterPath(w)], JSONstringify(writers[w].agent))]
    /\ writers' = [writers EXCEPT ![w].pc = "written"]
    /\ UNCHANGED <<clockMs, opts, req, out, vin, vout, finished, saved, rin, rout,
                   accepted, cli>>

\* writeFile closes the file and saveAgent returns
SaveClose(w) ==
    /\ writers[w].pc = "written"
    /\ writers' = [writers EXCEPT ![w].pc = "done"]
    /\ finished' = Append(finished, [op |-> "save", w |-> w])
    /\ UNCHANGED <<files, clockMs, opts, req, out, vin, vout, saved, rin, rout,
                   accepted, cli>>

\* deleteAgent(agentId), at any moment
WriterDelete(agentId) ==
    /\ \A i \in 1..Len(finished) : finished[i] # [op |-> "delete", id |-> agentId]
    /\ files' = deleteAgent(agentId, files)
    /\ writers' = [w \in Writers |->
                     IF writers[w].pc = "open" /\ WriterPath(w) = agentPath(agentId)
                     THEN [writers[w] EXCEPT !.orphan = TRUE]
                     ELSE writers[w]]
    /\ finished' = Append(finished, [op |-> "delete", id |-> agentId])
    /\ UNCHANGED <<clockMs, opts, req, out, vin, vout, saved, rin, rout, accepted, cli>>

NextWriters ==
    \/ \E w \in Writers, agent \in WriterAgents : SaveBegin(w, agent)
    \/ \E w \in Writers : SaveOpen(w)
    \/ \E w \in Writers : SaveWrite(w)
    \/ \E w \in Writers : SaveClose(w)
    \/ \E agentId \in {A1, A2} : WriterDelete(agentId)

SpecWriters == Init /\ [][NextWriters]_vars

(***************************************************************************)
(* SpecRegister: the example service.  Agents register over the            *)
(* unprotected POST /auth/register, an operator revokes a credential by    *)
(* saving it with status revoked, and signed requests go through zagAuth.  *)
(* accepted is the history of the requests that reached next.              *)
(***************************************************************************)
MaxAccepted == 2

RegisterBodies ==
    {Throw} \cup
    { Ok([agent_id |-> id, public_key |-> key, name |-> Undefined]) :
        id \in {A1, <<>>, Undefined},
        key \in {PublicKeyOf(k) : k \in Keys} \cup {Undefined} }
    \cup {Ok([agent_id |-> A1, public_key |-> PublicKeyOf(1), name |-> <<"n">>])}

RegisterRequests ==
    { Context(A1, <<"0">>, ClientSignature(k, GET, PathA, <<"0">>, Undefined),
              GET, PathA, <<>>) : k \in Keys }

\* POST /auth/register with the given body
Register(body) ==
    /\ req = NoRequest
    /\ rin = NoCall
    /\ rin' = [body |-> body, before |-> files, now |-> clockMs]
    /\ rout' = register(body, files, clockMs)
    /\ files' = register(body, files, clockMs).files
    /\ UNCHANGED <<clockMs, opts, req, out, vin, vout, writers, finished, saved,
                   accepted, cli>>

\* the response of the registration has been sent
RegisterReturn ==
    /\ rin # NoCall
    /\ rin' = NoCall
    /\ rout' = NoCall
    /\ UNCHANGED <<files, clockMs, opts, req, out, vin, vout, writers, finished,
                   saved, accepted, cli>>

\* the operator revokes the credential of an agent: the stored record is saved
\* again with status revoked
Revoke(agentId) ==
    /\ req = NoRequest
    /\ rin = NoCall
    /\ loadAgent(agentId, files) # NoAgent
    /\ loadAgent(agentId, files).status = "active"
    /\ files' = saveAgent([loadAgent(agentId, files) EXCEPT !.status = "revoked"], files)
    /\ UNCHANGED <<clockMs, opts, req, out, vin, vout, later, cli>>

\* the credentials a request presents
Presented(c) ==
    <<c.headers["X-Agent-Id"], c.headers["X-Timestamp"], c.headers["X-Signature"]>>

\* one request through the middleware, noted in accepted when it reaches next
RequestLogged(c) ==
    /\ req = NoRequest
    /\ rin = NoCall
    /\ req' = c
    /\ out' = zagAuth(opts, c, files, clockMs)
    /\ accepted' = IF zagAuth(opts, c, files, clockMs).next /\ Len(accepted) < MaxAccepted
                    THEN Append(accepted, Presented(c))
                    ELSE accepted
    /\ UNCHANGED <<files, clockMs, opts, vin, vout, writers, finished, saved, rin, rout, cli>>

NextRegister ==
    \/ \E body \in RegisterBodies : Register(body)
    \/ RegisterReturn
    \/ Revoke(A1)
    \/ Tick(MaxTicks)
    \/ \E c \in RegisterRequests : RequestLogged(c)
    \/ Respond

SpecRegister == Init /\ [][NextRegister]_vars

(***************************************************************************)
(* SpecExec: the CLI against the middleware.  The client holds the         *)
(* registration of agent a1 with key pair 1 and runs exec on the actions   *)
(* of the manifest; its clock is the server's plus a skew.  The request    *)
(* exec sends is the request zagAuth handles.                              *)
(***************************************************************************)
Exec(serviceUrl, action, data, skew) ==
    LET run == exec(serviceUrl, action, data, ExecAgent, PrivateKeyOf(1), clockMs + skew)
    IN  /\ req = NoRequest
        /\ xin = NoCall
        /\ clockMs + skew >= 0
        /\ run.exit = 0
        /\ xin' = [action |-> action, data |-> data, skew |-> skew, run |-> run]
        /\ req' = run.request
        /\ out' = zagAuth(opts, run.request, files, clockMs)
        /\ UNCHANGED <<files, clockMs, opts, vin, vout, later, cfg, kept, setup>>

\* exec given data that is not JSON: exit 1, nothing is sent
ExecExit(serviceUrl, action, data, skew) ==
    LET run == exec(serviceUrl, action, data, ExecAgent, PrivateKeyOf(1), clockMs + skew)
    IN  /\ req = NoRequest
        /\ xin = NoCall
        /\ clockMs + skew >= 0
        /\ run.exit = 1
        /\ xin' = [action |-> action, data |-> data, skew |-> skew, run |-> run]
        /\ UNCHANGED <<files, clockMs, opts, req, out, vin, vout, later, cfg, kept, setup>>

\* exec has printed the response, or its error, and the process is over
ExecEnd ==
    /\ xin # NoCall
    /\ xin' = NoCall
    /\ req' = NoRequest
    /\ out' = NoOutcome
    /\ UNCHANGED <<files, clockMs, opts, vin, vout, later, cfg, kept, setup>>

NextExec ==
    \/ \E agent \in ExecCredentials : xin = NoCall /\ SaveAgent(agent)
    \/ xin = NoCall /\ Tick(MaxTicks)
    \/ \E u \in ExecServiceUrls, action \in ManifestActions, data \in ExecData,
          skew \in ExecSkews : Exec(u, action, data, skew)
    \/ \E u \in ExecServiceUrls, action \in ManifestActions, data \in ExecData,
          skew \in ExecSkews : ExecExit(u, action, data, skew)
    \/ ExecEnd

SpecExec == Init /\ [][NextExec]_vars

(***************************************************************************)
(* SpecConfig: the config utilities of the CLI, called one at a time on    *)
(* one config directory.  kept records what was last saved for each path   *)
(* and not removed since.                                                  *)
(***************************************************************************)
ConfigSave(path, agent) ==
    /\ cfg' = cli_saveAgent(path, agent, cfg)
    /\ kept' = [kept EXCEPT ![path] = agent]
    /\ UNCHANGED <<files, clockMs, opts, req, out, vin, vout, later, xin, setup>>

ConfigRemove(path) ==
    /\ cfg' = removeService(path, cfg)
    /\ kept' = [kept EXCEPT ![path] = NoAgent]
    /\ UNCHANGED <<files, clockMs, opts, req, out, vin, vout, later, xin, setup>>

NextConfig ==
    \/ \E path \in CliPaths, agent \in CliData : ConfigSave(path, agent)
    \/ \E path \in CliPaths : ConfigRemove(path)

SpecConfig == Init /\ [][NextConfig]_vars

(***************************************************************************)
(* SpecSetup: the command setup (cli/src/commands/setup.ts), one run at a  *)
(* time, step by step: the checks, the manifest, the confirmation, the     *)
(* registration with the service and then the local writes of saveKeys,    *)
(* saveAgent and saveManifest, one file system call per step.  The process *)
(* may be killed between any two steps, and rm may remove a registered     *)
(* service at any moment.                                                  *)
(***************************************************************************)
HttpPrefix == <<"h", "t", "t", "p", ":", "/", "/">>
HttpsPrefix == <<"h", "t", "t", "p", "s", ":", "/", "/">>

startsWith(s, prefix) == IsPrefix(prefix, s)

SetupUrls == {ServiceUrl1, ServiceUrl2, <<".">>}

\* the manifest that fetchManifest returns
ManifestDoc ==
    [version |-> "v0", name |-> <<"n">>, register |-> <<"/", "r">>,
     actions |-> <<[id |-> <<"a">>, method |-> GET, path |-> PathA]>>]

\* a slip: the agent data saved before the keys
SetupWritesAgentFirst ==
    <<"mkdir", "agent", "mkdir", "public", "private", "chmod", "mkdir", "manifest">>

\* the file system calls of saveKeys, saveAgent and saveManifest, in order
SetupWrites ==
    <<"mkdir", "public", "private", "chmod", "mkdir", "agent", "mkdir", "manifest">>

SetupOver == {"idle", "exit", "killed", "done"}

SetupExit(code, at) == [pc |-> "exit", code |-> code, at |-> at]

\* lines 91-110: the URL is checked, and that the service is not registered yet
SetupStart(url, yes) ==
    /\ setup.pc \in SetupOver
    /\ setup' = IF ~startsWith(url, HttpPrefix) /\ ~startsWith(url, HttpsPrefix)
                 THEN SetupExit(1, "protocol")
                 ELSE IF serviceExists(url, cfg) THEN SetupExit(1, "registered")
                 ELSE [pc |-> "fetch", url |-> url, yes |-> yes,
                       existed |-> serviceExists(url, cfg), manifest |-> "none",
                       confirmed |-> FALSE, response |-> "none", step |-> 0,
                       k |-> 0, agent_id |-> Undefined]
    /\ UNCHANGED <<files, clockMs, opts, req, out, vin, vout, later, xin, cfg, kept>>

\* lines 112-120: fetchManifest returns the manifest or throws
SetupFetch(result) ==
    /\ setup.pc = "fetch"
    /\ setup' = IF result # "ok" THEN SetupExit(1, "manifest")
                 ELSE [setup EXCEPT !.manifest = "ok",
                                    !.pc = IF setup.yes THEN "register" ELSE "confirm"]
    /\ UNCHANGED <<files, clockMs, opts, req, out, vin, vout, later, xin, cfg, kept>>

\* lines 134-141: the user confirms or declines
SetupConfirm(confirmed) ==
    /\ setup.pc = "confirm"
    /\ setup' = IF ~confirmed THEN SetupExit(0, "declined")
                 ELSE [setup EXCEPT !.confirmed = TRUE, !.pc = "register"]
    /\ UNCHANGED <<files, clockMs, opts, req, out, vin, vout, later, xin, cfg, kept>>

\* lines 143-169: a key pair and an agent id are made and posted to the service
SetupRegister(k, agentId, response) ==
    /\ setup.pc = "register"
    /\ setup' = IF response # "ok" THEN SetupExit(1, response)
                 ELSE [setup EXCEPT !.response = "ok", !.k = k, !.agent_id = agentId,
                                    !.pc = "write", !.step = 1]
    /\ UNCHANGED <<files, clockMs, opts, req, out, vin, vout, later, xin, cfg, kept>>

\* the agent data of line 174-179
SetupAgentData ==
    [agent_id |-> setup.agent_id, service_path |-> setup.url,
     registered_at |-> toISOString(clockMs), status |-> "active"]

\* the file system after one call of the local writes; a throw when the
\* directory is not there any more
setupWrite(call, fs) ==
    LET dir == getServiceDir(setup.url)
    IN  IF call = "mkdir" THEN Ok(mkdir(fs, dir))
        ELSE IF ~fs[dir].exists THEN Throw
        ELSE IF call = "public"
             THEN Ok(writeFile(fs, dir, "public", <<"pem:", PublicKeyOf(setup.k)>>))
        ELSE IF call = "private"
             THEN Ok(writeFile(fs, dir, "private", <<"pem:", PrivateKeyOf(setup.k)>>))
        ELSE IF call = "chmod"
             THEN IF fs[dir].private = NoFile THEN Throw
                  ELSE Ok(writeFile(fs, dir, "mode", <<"0600">>))
        ELSE IF call = "agent"
             THEN Ok(writeFile(fs, dir, "agent", JSONstringify(SetupAgentData)))
        ELSE Ok(writeFile(fs, dir, "manifest", JSONstringify(ManifestDoc)))

\* lines 171-181: the next call of saveKeys, saveAgent, saveManifest
SetupWrite ==
    /\ setup.pc = "write"
    /\ LET done == setupWrite(SetupWrites[setup.step], cfg)
       IN  IF ~done.ok
           THEN cfg' = cfg /\ setup' = SetupExit(1, "write")
           ELSE /\ cfg' = done.v
                /\ setup' = IF setup.step = Len(SetupWrites)
                             THEN [pc |-> "done", url |-> setup.url]
                             ELSE [setup EXCEPT !.step = setup.step + 1]
    /\ UNCHANGED <<files, clockMs, opts, req, out, vin, vout, later, xin, kept>>

\* the process is killed
SetupKill ==
    /\ setup.pc \notin SetupOver
    /\ setup' = [pc |-> "killed", url |-> setup.url]
    /\ UNCHANGED <<files, clockMs, opts, req, out, vin, vout, later, xin, cfg, kept>>

\* the command rm: a registered service is removed
SetupRm(url) ==
    /\ serviceExists(url, cfg)
    /\ cfg' = removeService(url, cfg)
    /\ UNCHANGED <<files, clockMs, opts, req, out, vin, vout, later, xin, kept, setup>>

NextSetup ==
    \/ \E url \in SetupUrls, yes \in BOOLEAN : SetupStart(url, yes)
    \/ \E result \in {"ok", "fail"} : SetupFetch(result)
    \/ \E confirmed \in BOOLEAN : SetupConfirm(confirmed)
    \/ \E agentId \in {A1, A2}, response \in {"ok", "refused", "error"} :
          SetupRegister(1, agentId, response)
    \/ SetupWrite
    \/ SetupKill
    \/ \E url \in SetupUrls : SetupRm(url)

SpecSetup == Init /\ [][NextSetup]_vars

(***************************************************************************)
(* What the claims speak of, stated apart from the handler                 *)
(***************************************************************************)
Handled == req # NoRequest

ReqAgentId == req.headers["X-Agent-Id"]
ReqTimestamp == req.headers["X-Timestamp"]
ReqSignature == req.headers["X-Signature"]

Present(h) == h # Undefined /\ h # <<>>
HeadersPresent == Present(ReqAgentId) /\ Present(ReqTimestamp) /\ Present(ReqSignature)

\* the configured drift, 30 seconds when none is configured
DriftOf(o) ==
    IF "maxTimestampDrift" \in DOMAIN o THEN o.maxTimestampDrift ELSE DefaultMaxTimestampDrift

ServerSeconds == clockMs \div MsPerSecond

\* the timestamp, read as the server reads it, is at most the drift away from
\* the server's time
InsideWindow ==
    /\ ~parseInt(ReqTimestamp).nan
    /\ Abs(ServerSeconds - parseInt(ReqTimestamp).v) <= DriftOf(opts)

\* a string that is wholly a decimal integer: digits, after at most a minus sign
IsDecimalInteger(str) ==
    LET ds == IF str # <<>> /\ str[1] = "-" THEN Tail(str) ELSE str
    IN  ds # <<>> /\ \A i \in 1..Len(ds) : IsDigit(ds[i])

\* the credential the store returns for the claimed id
StoredAgent == loadAgent(ReqAgentId, files)
HasCredential == StoredAgent # NoAgent
ActiveCredential == HasCredential /\ StoredAgent.status = "active"

\* the body the engine captures: the text of the request, except for GET and HEAD
CapturedBody == IF req.method \in {GET, HEAD} THEN Undefined ELSE req.text

\* the signature header is the signature that the holder of the private half of
\* publicKey makes over (method, URL path, X-Timestamp, captured body)
SignedBy(publicKey) ==
    \E k \in Keys :
        /\ publicKey = PublicKeyOf(k)
        /\ ReqSignature = sign(cli_buildSigningString(req.method, pathname(req.url.rest),
                                                      ReqTimestamp, CapturedBody),
                               PrivateKeyOf(k))

Denied(status, error) ==
    /\ ~out.next
    /\ out.status = status
    /\ out.error = error
    /\ out.agentId = Undefined

Authenticated ==
    /\ out.next
    /\ out.agentId = ReqAgentId
    /\ out.status = 0

(***************************************************************************)
(* C1  A request reaches the downstream handler, with agentId set to its   *)
(* X-Agent-Id, exactly when the three headers are present, the timestamp   *)
(* is inside the drift window, the store returns an active credential for  *)
(* the id and the signature is the one made under that credential's key    *)
(* over (method, URL path, X-Timestamp, body); every other request gets a  *)
(* 401 or 403 and next is not invoked.                                     *)
(***************************************************************************)
C1_AllConditions ==
    /\ HeadersPresent
    /\ InsideWindow
    /\ ActiveCredential
    /\ SignedBy(StoredAgent.public_key)

C2_TimestampInteger ==
    CHOOSE t \in MinTimestamp..MaxTimestamp : toString(t) = ReqTimestamp

C2_OtherwiseValid ==
    /\ Handled
    /\ HeadersPresent
    /\ \E t \in MinTimestamp..MaxTimestamp : toString(t) = ReqTimestamp
    /\ ActiveCredential
    /\ SignedBy(StoredAgent.public_key)

C2_WindowBoundary ==
    C2_OtherwiseValid =>
        LET d == Abs(ServerSeconds - C2_TimestampInteger)
        IN  /\ d <= DriftOf(opts) => Authenticated
            /\ d > DriftOf(opts) =>
                   Denied(401, "Request timestamp out of allowed window")

\* with the default drift, a timestamp exactly 30 seconds old passed
C2_Witness ==
    /\ C2_OtherwiseValid
    /\ "maxTimestampDrift" \notin DOMAIN opts
    /\ C2_TimestampInteger = ServerSeconds - DefaultMaxTimestampDrift
    /\ Authenticated

(***************************************************************************)
(* C3  A request whose id resolves to a credential that is not active is   *)
(* never authenticated; with headers present and the timestamp in the      *)
(* window it is answered 403 "Agent is not active", whatever its signature.*)
(***************************************************************************)
C3_InactiveNeverAuthenticated ==
    Handled /\ HasCredential /\ StoredAgent.status # "active" =>
        /\ ~out.next
        /\ HeadersPresent /\ InsideWindow => Denied(403, "Agent is not active")

\* a revoked agent, with a signature that is valid under its stored key
C3_Witness ==
    /\ Handled
    /\ HeadersPresent
    /\ InsideWindow
    /\ HasCredential
    /\ StoredAgent.status = "revoked"
    /\ SignedBy(StoredAgent.public_key)
    /\ Denied(403, "Agent is not active")

(***************************************************************************)
(* C4  With the three headers present and the timestamp in the window, a   *)
(* request for whose id the store returns no credential is answered 401    *)
(* "Agent not found", whatever the signature, and verify is not called.    *)
(***************************************************************************)
Did(step) == \E i \in 1..Len(out.steps) : out.steps[i] = step

C5_MissingHeaders ==
    Handled /\ ~HeadersPresent =>
        /\ Denied(401, "Missing authentication headers")
        /\ out.steps = <<"headers">>

\* only X-Signature is missing, for an id that has a credential
C5_Witness ==
    /\ Handled
    /\ Present(ReqAgentId)
    /\ Present(ReqTimestamp)
    /\ ReqSignature = Undefined
    /\ HasCredential
    /\ Denied(401, "Missing authentication headers")

(***************************************************************************)
(* C6  A request whose X-Timestamp is not wholly a decimal integer is      *)
(* rejected at the timestamp step (no store lookup, no verification) and   *)
(* is never authenticated.                                                 *)
(***************************************************************************)
C6_NonIntegerTimestampRejected ==
    Handled /\ HeadersPresent /\ ~IsDecimalInteger(ReqTimestamp) =>
        /\ ~out.next
        /\ out.steps = <<"headers", "timestamp">>

(***************************************************************************)
(* C7  The steps run in the order presence, timestamp, lookup, status,     *)
(* body capture, verification, and stop at the first failure: the answer   *)
(* is that of the earliest failing step and nothing is done after it.      *)
(***************************************************************************)
C7_Order == <<"headers", "timestamp", "loadAgent", "status", "text", "verify", "next">>

\* the steps a request with a body to capture (or without) goes through
C7_Pipeline ==
    IF Handled /\ req.method \notin {GET, HEAD} THEN C7_Order
    ELSE SelectSeq(C7_Order, LAMBDA x : x # "text")

\* the earliest step that fails, by what the claims call each failure
C7_FirstFailure ==
    IF ~HeadersPresent THEN "headers"
    ELSE IF ~InsideWindow THEN "timestamp"
    ELSE IF ~HasCredential THEN "loadAgent"
    ELSE IF StoredAgent.status # "active" THEN "status"
    ELSE IF ~SignedBy(StoredAgent.public_key) THEN "verify"
    ELSE "next"

C7_AnswerOf(step) ==
    CASE step = "headers" -> [status |-> 401, error |-> "Missing authentication headers"]
      [] step = "timestamp" -> [status |-> 401, error |-> "Request timestamp out of allowed window"]
      [] step = "loadAgent" -> [status |-> 401, error |-> "Agent not found"]
      [] step = "status" -> [status |-> 403, error |-> "Agent is not active"]
      [] step = "verify" -> [status |-> 401, error |-> "Invalid signature"]
      [] step = "next" -> [status |-> 0, error |-> ""]

Called == vin # NoCall

\* the signature and the public key are those of the signer
GenuineMaterial ==
    /\ vin.call.signature = SignatureOf(vin.signed)
    /\ vin.call.publicKey = PublicKeyOf(vin.signed.k)

SameField(f) == vin.call[f] = vin.signed[f]

C8_RoundTrip ==
    Called /\ GenuineMaterial /\ SameField("method") /\ SameField("path")
           /\ SameField("timestamp") /\ SameField("body")
        => vout = Ok(TRUE)

\* a lower-case method and a non-empty body went round
C8_Witness ==
    /\ Called
    /\ GenuineMaterial
    /\ vin.call = [method |-> get, path |-> PathA, timestamp |-> <<"1">>,
                   body |-> <<"x">>, signature |-> SignatureOf(vin.signed),
                   publicKey |-> PublicKeyOf(vin.signed.k)]
    /\ vin.signed.method = get
    /\ vin.signed.path = PathA
    /\ vin.signed.timestamp = <<"1">>
    /\ vin.signed.body = <<"x">>
    /\ vout = Ok(TRUE)

(***************************************************************************)
(* C9  Tamper sensitivity.  As claimed: with the signature and public key  *)
(* of the signer, verify returns false when exactly one of method, path,   *)
(* timestamp and body differs from what was signed.  As amended: ... when  *)
(* exactly one of them differs and the difference is more than the case of *)
(* the method's letters or an empty body for an absent one.                *)
(***************************************************************************)
TamperFields == {"method", "path", "timestamp", "body"}

ChangedFields == {f \in TamperFields : ~SameField(f)}

\* the two values stand for the same segment of the signing string
SameCanonical(f) ==
    CASE f = "method" -> toUpperCase(vin.call.method) = toUpperCase(vin.signed.method)
      [] f = "body" -> \/ vin.call.body = vin.signed.body
                       \/ vin.call.body \in {Undefined, <<>>}
                          /\ vin.signed.body \in {Undefined, <<>>}
      [] OTHER -> SameField(f)

C9_AnyChangeDetected ==
    Called /\ GenuineMaterial /\ vin.call.method # Undefined
           /\ Cardinality(ChangedFields) = 1
        => vout = Ok(FALSE)

C9_CanonicalChange == \E f \in ChangedFields : ~SameCanonical(f)

C9_CanonicalChangeDetected ==
    Called /\ GenuineMaterial /\ vin.call.method # Undefined
           /\ Cardinality(ChangedFields) = 1 /\ C9_CanonicalChange
        => vout = Ok(FALSE)

\* a body added to a request that was signed without one is detected
C9_Witness ==
    /\ Called
    /\ GenuineMaterial
    /\ ChangedFields = {"body"}
    /\ vin.signed.body = Undefined
    /\ vin.call.body = <<"x">>
    /\ vout = Ok(FALSE)

(***************************************************************************)
(* C10  verify never throws: on every input it returns a boolean; it       *)
(* returns false on a signature that is not base64 or is cut short, on a   *)
(* key that is cut short, too long, not base64 or no key, and on whatever  *)
(* makes the cryptographic calls throw; it returns true only when the      *)
(* signature is the one made by the key's private half over the arguments. *)
(***************************************************************************)
\* the signature is the one that the private half of the given public key
\* makes over the signing string of the arguments
GenuinelyVerifies(o) ==
    /\ o.method # Undefined
    /\ \E k \in Keys :
          /\ o.publicKey = PublicKeyOf(k)
          /\ o.signature = sign(cli_buildSigningString(o.method, o.path, o.timestamp, o.body),
                                PrivateKeyOf(k))

C10_NeverThrows ==
    Called =>
        /\ vout.ok
        /\ vout.v \in BOOLEAN
        /\ vout.v <=> GenuinelyVerifies(vin.call)

\* the cryptographic calls threw on a truncated public key, and verify
\* returned false
C10_Witness ==
    /\ Called
    /\ vin.call.publicKey = TruncatedKey
    /\ vin.call.signature = SignatureOf(vin.signed)
    /\ ~verifyTry(vin.call).ok
    /\ vout = Ok(FALSE)

(***************************************************************************)
(* C11  buildSigningString gives METHOD, path and timestamp, the method in *)
(* upper case, separated by single newlines, and then a newline and the    *)
(* body exactly when the body is not empty; an empty body and an absent    *)
(* one give the same signing string and so the same signature, which       *)
(* verifies for either.                                                    *)
(***************************************************************************)
\* the format, written out character by character
C11_Format(method, path, timestamp, body) ==
    LET head == [i \in 1..Len(method) |-> UpperChar(method[i])]
                \o <<"\n">> \o path \o <<"\n">> \o timestamp
    IN  IF body # Undefined /\ Len(body) > 0 THEN head \o <<"\n">> \o body ELSE head

C11_SigningStringFormat ==
    Called /\ vin.call.method # Undefined =>
        LET o == vin.call
            g == vin.signed
        IN  /\ buildSigningString(o.method, o.path, o.timestamp, o.body)
                  = C11_Format(o.method, o.path, o.timestamp, o.body)
            /\ cli_buildSigningString(g.method, g.path, g.timestamp, g.body)
                  = C11_Format(g.method, g.path, g.timestamp, g.body)
            /\ buildSigningString(o.method, o.path, o.timestamp, <<>>)
                  = buildSigningString(o.method, o.path, o.timestamp, Undefined)
            /\ sign(buildSigningString(o.method, o.path, o.timestamp, <<>>), PrivateKeyOf(g.k))
                  = sign(buildSigningString(o.method, o.path, o.timestamp, Undefined),
                         PrivateKeyOf(g.k))
            /\ GenuineMaterial /\ SameField("method") /\ SameField("path")
                 /\ SameField("timestamp") /\ o.body \in {Undefined, <<>>}
                 /\ g.body \in {Undefined, <<>>}
               => vout = Ok(TRUE)

\* a signature made over an empty body verified for an absent one
C11_Witness ==
    /\ Called
    /\ GenuineMaterial
    /\ SameField("method") /\ SameField("path") /\ SameField("timestamp")
    /\ vin.signed.body = <<>>
    /\ vin.call.body = Undefined
    /\ vin.call.method = get
    /\ Len(buildSigningString(vin.call.method, vin.call.path, vin.call.timestamp,
                              vin.call.body)) = 8
    /\ vout = Ok(TRUE)

(***************************************************************************)
(* C12  For a method other than GET and HEAD the body is read and the      *)
(* signature is verified against it: a request otherwise in order, whose   *)
(* signature was made over a body other than the one received, is answered *)
(* 401 "Invalid signature", and one signed over the body received is       *)
(* authenticated.  For GET and HEAD the body is not read and the verdict   *)
(* does not depend on it.                                                  *)
(***************************************************************************)
C12_OtherwiseValid == Handled /\ HeadersPresent /\ InsideWindow /\ ActiveCredential

\* the signature header is the one the holder of the credential's key makes
\* over the request's method, path and timestamp and the body sb
C12_SignedOver(sb) ==
    \E k \in Keys :
        /\ StoredAgent.public_key = PublicKeyOf(k)
        /\ ReqSignature = sign(cli_buildSigningString(req.method, pathname(req.url.rest),
                                                      ReqTimestamp, sb),
                               PrivateKeyOf(k))

C12_BodyVerified ==
    C12_OtherwiseValid =>
        \A sb \in SignedTexts :
            C12_SignedOver(sb) =>
                IF req.method \notin {GET, HEAD}
                THEN /\ Did("text")
                     /\ sb # req.text => Denied(401, "Invalid signature")
                     /\ sb = req.text => Authenticated
                ELSE /\ ~Did("text")
                     /\ Authenticated <=> sb = <<>>

\* a POST received with body x under a signature made over body y
C12_Witness ==
    /\ C12_OtherwiseValid
    /\ req.method = POST
    /\ req.text = <<"x">>
    /\ C12_SignedOver(<<"y">>)
    /\ Did("text")
    /\ Denied(401, "Invalid signature")

(***************************************************************************)
(* C13  Upsert semantics of the store: after any sequence of saves and     *)
(* deletes, getAgent(id) (and loadAgent(id)) returns the credential last   *)
(* saved under id and not deleted since, and nothing when there is none;   *)
(* a save or delete of one id leaves what is returned for every other id   *)
(* as it was.                                                              *)
(***************************************************************************)
C13_GetReturnsLastSaved ==
    \A id \in AgentIds :
        /\ getAgent(id, files) = saved[id]
        /\ loadAgent(id, files) = saved[id]

(***************************************************************************)
(* C14  Concurrent writers: whatever is saved or deleted under other ids   *)
(* meanwhile, once every saveAgent call for an agent id has returned (and  *)
(* the id was not deleted), getAgent(id) returns one of the credentials    *)
(* that were saved, whole: never a mixture, never nothing.                 *)
(***************************************************************************)
C14_Deleted(id) ==
    \E i \in 1..Len(finished) : finished[i] = [op |-> "delete", id |-> id]

\* the writers that were given a credential of id to save
C14_SavesOf(id) ==
    {w \in Writers : writers[w].pc # "idle" /\ writers[w].agent.agent_id = id}

C14_ConcurrentSaves ==
    \A id \in {A1, A2} :
        /\ ~C14_Deleted(id)
        /\ C14_SavesOf(id) # {}
        /\ \A w \in C14_SavesOf(id) : writers[w].pc = "done"
        => \E w \in C14_SavesOf(id) : getAgent(id, files) = writers[w].agent

(***************************************************************************)
(* C15  Fail closed on a failing store: when the credential of the claimed *)
(* id cannot be read (no file, a file that cannot be read, text that is    *)
(* not JSON), the request is denied with 401 "Agent not found", next is    *)
(* not invoked and no signature is verified.                               *)
(***************************************************************************)
\* the file of the claimed id, as it is on disk
C15_File == files[agentPath(ReqAgentId)]

\* reading the credential fails
C15_ReadFails ==
    \/ C15_File \in {NoFile, Unreadable}
    \/ Len(C15_File) # 2
    \/ C15_File[1] # "json:"

C16_Status(id, fs) ==
    IF loadAgent(id, fs) = NoAgent THEN "none" ELSE loadAgent(id, fs).status

C16_RevocationTerminal ==
    [][\A id \in AgentIds :
          C16_Status(id, files) = "revoked" => C16_Status(id, files') # "active"]_vars

(***************************************************************************)
(* C17  Registration needs no signature.  Given an agent_id and a          *)
(* public_key it stores {agent_id, public_key, (name,) status active,      *)
(* registered_at = now} under the id, replacing silently what was there;   *)
(* lacking either, it is refused and the store is as before.  Requests     *)
(* signed with the private half of the stored key are then authenticated.  *)
(***************************************************************************)
C17_Registering == rin # NoCall

C17_Complete ==
    /\ rin.body.ok
    /\ Present(rin.body.v.agent_id)
    /\ Present(rin.body.v.public_key)

\* the credential that the registration is to store
C17_Credential ==
    LET b == rin.body.v
        core == [agent_id |-> b.agent_id, public_key |-> b.public_key,
                 registered_at |-> <<"iso:", rin.now>>, status |-> "active"]
    IN  IF b.name = Undefined THEN core ELSE core @@ [name |-> b.name]

C17_Registration ==
    /\ C17_Registering /\ C17_Complete =>
          /\ rout.status = 200
          /\ getAgent(rin.body.v.agent_id, files) = C17_Credential
          /\ \A p \in FilePaths :
                p # <<rin.body.v.agent_id \o DotJson>> => files[p] = rin.before[p]
    /\ C17_Registering /\ ~C17_Complete =>
          /\ rout.status \in {400, 500}
          /\ files = rin.before
    /\ Handled /\ HeadersPresent /\ InsideWindow /\ ActiveCredential
        /\ SignedBy(StoredAgent.public_key) => Authenticated

\* a second registration of an id replaced the key that was stored
C17_Witness ==
    /\ C17_Registering
    /\ C17_Complete
    /\ getAgent(rin.body.v.agent_id, rin.before) # NoAgent
    /\ getAgent(rin.body.v.agent_id, rin.before).public_key # rin.body.v.public_key
    /\ getAgent(rin.body.v.agent_id, files) = C17_Credential
    /\ rout.status = 200

(***************************************************************************)
(* C18  registered_at is immutable: while a credential is stored under an  *)
(* agent id, no operation changes its registered_at.                       *)
(***************************************************************************)
C18_RegisteredAtImmutable ==
    [][\A id \in AgentIds :
          loadAgent(id, files) # NoAgent /\ loadAgent(id, files') # NoAgent
          => loadAgent(id, files').registered_at = loadAgent(id, files).registered_at]_vars

(***************************************************************************)
(* C19  A captured request, correctly signed with timestamp t, can be      *)
(* replayed only during the drift window: once the server's time is past   *)
(* t + maxTimestampDrift it stays past it, and every replay handled from   *)
(* then on is answered 401 "Request timestamp out of allowed window".      *)
(* (Every state in which a request is being answered has a next step, the  *)
(* response, so the second conjunct speaks of every request handled.)      *)
(***************************************************************************)
C19_Expired(t, now) == now \div MsPerSecond > t + DriftOf(opts)

\* the request being answered is a captured one: correctly signed by the
\* registered agent, with the decimal string of an integer as its timestamp
C19_Replayed == C2_OtherwiseValid

C19_ExposedOnlyInWindow ==
    [][/\ \A t \in MinTimestamp..MaxTimestamp :
             C19_Expired(t, clockMs) => C19_Expired(t, clockMs')
       /\ C19_Replayed /\ C19_Expired(C2_TimestampInteger, clockMs)
           => Denied(401, "Request timestamp out of allowed window")]_vars

\* the replay arrived one second after the window closed, the agent still
\* registered and active
C19_Witness ==
    /\ C19_Replayed
    /\ ServerSeconds = C2_TimestampInteger + DriftOf(opts) + 1
    /\ Denied(401, "Request timestamp out of allowed window")

(***************************************************************************)
(* C20  Signatures cannot be reused: no two accepted requests carry the    *)
(* same X-Agent-Id, X-Timestamp and X-Signature.                           *)
(***************************************************************************)
C20_NoReuse ==
    \A i, j \in 1..Len(accepted) : i # j => accepted[i] # accepted[j]

(***************************************************************************)
(* C21  Rejections are uniform: apart from the 403 of an inactive agent,   *)
(* every rejected request is answered alike, whatever the stage that       *)
(* rejected it; namely as a request without any header is answered.        *)
(***************************************************************************)
\* a request that is rejected at the first stage, in every state
C21_Bare == Context(Undefined, Undefined, Undefined, GET, PathA, <<>>)

C21_Response(o) == <<o.status, o.error>>

C21_UniformRejections ==
    Handled /\ ~out.next /\ C7_FirstFailure # "status" =>
        C21_Response(out) = C21_Response(zagAuth(opts, C21_Bare, files, clockMs))

(***************************************************************************)
(* C23  Lookups are exact: getAgent(s) returns a credential only if one    *)
(* was saved under exactly s and not deleted since, the credential         *)
(* returned names s as its agent_id, and no two distinct ids are answered  *)
(* from the same stored record.                                            *)
(***************************************************************************)
C23_ExactMatch ==
    /\ \A s \in AgentIds :
          getAgent(s, files) # NoAgent =>
              /\ saved[s] # NoAgent
              /\ getAgent(s, files).agent_id = s
    /\ \A s, t \in AgentIds :
          s # t /\ getAgent(s, files) # NoAgent => agentPath(s) # agentPath(t)

(***************************************************************************)
(* C26  Only the path is authenticated: a request and the same request     *)
(* with a query string added or removed, or sent to another host, get the  *)
(* same verdict under the same signature.                                  *)
(***************************************************************************)
\* the same request, with the query string added or removed and another host
C26_Twin ==
    [req EXCEPT !.url = [origin |-> "https://api.example.com",
                         rest |-> IF req.url.rest = PathA THEN PathAQuery ELSE PathA]]

C26_QueryNotAuthenticated ==
    Handled /\ req.url.rest \in {PathA, PathAQuery} =>
        LET twin == zagAuth(opts, C26_Twin, files, clockMs)
        IN  /\ twin.next = out.next
            /\ twin.status = out.status
            /\ twin.error = out.error
            /\ twin.agentId = out.agentId

\* a request with a query string was authenticated under a signature over the
\* path alone
C26_Witness ==
    /\ Handled
    /\ req.url.rest = PathAQuery
    /\ ReqSignature = sign(cli_buildSigningString(req.method, PathA, ReqTimestamp,
                                                  CapturedBody), PrivateKeyOf(1))
    /\ Authenticated

(***************************************************************************)
(* C24  Verification is stateless: handling a request changes neither the  *)
(* credential store nor the clock nor the options, and its verdict is the  *)
(* one that the request, the clock and the store at its lookup determine,  *)
(* whatever was registered, revoked or requested before and in whatever    *)
(* order.                                                                  *)
(***************************************************************************)
C24_Untouched == files' = files /\ clockMs' = clockMs /\ opts' = opts

C29_NoNewline(s) == \A i \in 1..Len(s) : s[i] # Newline

C29_Clean(t) ==
    /\ t.method # Undefined
    /\ C29_NoNewline(t.method)
    /\ C29_NoNewline(t.path)
    /\ C29_NoNewline(t.timestamp)

C29_SameString ==
    buildSigningString(vin.call.method, vin.call.path, vin.call.timestamp, vin.call.body)
        = cli_buildSigningString(vin.signed.method, vin.signed.path,
                                 vin.signed.timestamp, vin.signed.body)

C29_Unambiguous ==
    Called /\ C29_Clean(vin.call) /\ C29_Clean(vin.signed) =>
        /\ C29_SameString => \A f \in TamperFields : SameCanonical(f)
        /\ vout = Ok(TRUE) => \A f \in TamperFields : SameCanonical(f)

\* two different tuples with one signing string: the method in another case,
\* an empty body for an absent one
C29_Witness ==
    /\ Called
    /\ C29_Clean(vin.call) /\ C29_Clean(vin.signed)
    /\ C29_SameString
    /\ vin.call.method # vin.signed.method
    /\ vin.call.body # vin.signed.body
    /\ vout = Ok(TRUE)

(***************************************************************************)
(* C22  No verification hangs: every request that enters the handler       *)
(* eventually has its verdict, also when the store never answers the       *)
(* lookup.                                                                 *)
(***************************************************************************)
C22_HasVerdict == Handled /\ out # Awaiting

C22_NoHang == Handled ~> C22_HasVerdict

(***************************************************************************)
(* C28  A lookup while a credential is being saved again: with one save of *)
(* the id complete and another under way (and the id not deleted), a       *)
(* getAgent(id) at that moment returns one of the two credentials, whole;  *)
(* and a correctly signed request of the agent, active in both, is not     *)
(* turned away.                                                            *)
(***************************************************************************)
C28_Resaving(id) ==
    /\ ~C14_Deleted(id)
    /\ \E w1, w2 \in C14_SavesOf(id) :
          /\ writers[w1].pc = "done"
          /\ writers[w2].pc \in {"mkdir", "open", "written"}

\* a request of agent a1, signed with its key, its timestamp the clock reading
C28_Request ==
    Context(A1, <<"0">>, ClientSignature(1, GET, PathA, <<"0">>, Undefined),
            GET, PathA, <<>>)

C28_ReadDuringSave ==
    /\ \A id \in {A1, A2} :
          C28_Resaving(id) =>
              \E w \in C14_SavesOf(id) : getAgent(id, files) = writers[w].agent
    /\ C28_Resaving(A1) /\ (\A w \in C14_SavesOf(A1) : writers[w].agent.status = "active")
          => zagAuth(opts, C28_Request, files, clockMs).next

(***************************************************************************)
(* C27  Bookkeeping of the CLI: after any saves and removals,              *)
(* serviceExists holds exactly of the paths saved and not removed since,   *)
(* listServices is exactly that set, and loadAgent gives the data last     *)
(* saved for a path, null for the others.                                  *)
(***************************************************************************)
C27_Registered == {p \in CliPaths : kept[p] # NoAgent}

C27_Bookkeeping ==
    /\ \A p \in CliPaths : serviceExists(p, cfg) <=> p \in C27_Registered
    /\ listServices(cfg) = C27_Registered
    /\ \A p \in CliPaths : cli_loadAgent(p, cfg) = Ok(kept[p])

(***************************************************************************)
(* C25  Client and server interoperate: the request that exec sends for a  *)
(* registered, active agent, with the two clocks no further apart than the *)
(* drift, is authenticated; what exec signed is the method, the URL path,  *)
(* the X-Timestamp and the body that the server takes from the request.    *)
(***************************************************************************)
C25_Sent == Handled /\ xin # NoCall /\ xin.run.exit = 0

C25_Registered == ActiveCredential /\ StoredAgent.public_key = PublicKeyOf(1)

C25_ClocksClose == Abs(xin.skew) <= DriftOf(opts) * MsPerSecond

C25_SameMaterial ==
    /\ toUpperCase(xin.run.signed.method) = toUpperCase(req.method)
    /\ xin.run.signed.path = pathname(req.url.rest)
    /\ xin.run.signed.timestamp = ReqTimestamp
    /\ (xin.run.signed.body = CapturedBody
          \/ (Falsy(xin.run.signed.body) /\ Falsy(CapturedBody)))

C25_Interoperable ==
    C25_Sent /\ C25_Registered /\ C25_ClocksClose =>
        Authenticated /\ C25_SameMaterial

(***************************************************************************)
(* C30  setup writes local state only after the service accepted the       *)
(* registration, and never over an existing one: a step writes in the      *)
(* config directory only in a run that found the service unregistered, got *)
(* the manifest, was confirmed and got an OK response; and at every moment *)
(* a service that serviceExists reports has its private key file.          *)
(***************************************************************************)
\* the step only removes directories (rm)
C30_Removal == \A d \in DOMAIN cfg : cfg'[d] = cfg[d] \/ cfg'[d] = NoDir

C30_Accepted ==
    /\ setup.pc = "write"
    /\ ~setup.existed
    /\ setup.manifest = "ok"
    /\ setup.yes \/ setup.confirmed
    /\ setup.response = "ok"

C30_KeyBeforeAgent ==
    \A url \in SetupUrls :
        serviceExists(url, cfg) => existsSync(cfg, getServiceDir(url), "private")

C30_SetupWrites ==
    [][ /\ C30_KeyBeforeAgent
        /\ (cfg' # cfg /\ ~C30_Removal) => C30_Accepted ]_vars

\* a run was killed between saveAgent and saveManifest: the service counts as
\* registered, its key is there, its manifest is not
C30_Witness ==
    /\ setup.pc = "killed"
    /\ serviceExists(ServiceUrl1, cfg)
    /\ existsSync(cfg, getServiceDir(ServiceUrl1), "private")
    /\ ~existsSync(cfg, getServiceDir(ServiceUrl1), "manifest")

====
